---- MODULE Spec2Model ----
(***************************************************************************)
(* Model of todo_to_csv: the TODO extractor (src/src/lib.rs, TODO_PATTERN   *)
(* and extract_todo_comment), the file classifier (is_supported_file), the *)
(* file processor (process_file) and the driver (src/src/main.rs, main).   *)
(*                                                                         *)
(* Text is a sequence of one-character strings.  An Option is a sequence   *)
(* of length 0 (None) or 1 (Some(x)).                                      *)
(***************************************************************************)
EXTENDS Integers, Sequences, FiniteSets, TLC

VARIABLES
    line,       \* extractor: the text handed to extract_todo_comment
    result,     \* extractor: what extract_todo_comment returned
    epc,        \* extractor: "call" before the call, "done" after it
    entry,      \* classifier: the directory entry handed to is_supported_file
    supported,  \* classifier: what is_supported_file returned
    cpc,        \* classifier: "call" before the call, "done" after it
    argc,       \* main: args.len(), the program's name included
    dirBad,     \* main: the directory argument does not exist / is unreadable
    pc,         \* main: the statement main is at
    yielded,    \* main: how many items the walker has yielded
    seen,       \* main: the entries the walker yielded, with the lines read
    out,        \* main: the records csv_writer has accepted, in order
    created,    \* main: the output file was created or truncated
    stdout,     \* main: what was printed to standard output
    stderr,     \* main: what was printed to standard error
    exit,       \* main: the exit status, None while the process runs
    failure     \* main: the call that returned Err, "none" if none did

extractVars == <<line, result, epc>>
classifyVars == <<entry, supported, cpc>>
mainVars == <<argc, dirBad, pc, yielded, seen, out, created, stdout, stderr,
              exit, failure>>
vars == <<extractVars, classifyVars, mainVars>>

None == <<>>
Some(x) == <<x>>

(***************************************************************************)
(* Bounds of the model.                                                    *)
(***************************************************************************)
MaxPieces == 5
MaxNameParts == 4
MaxArgs == 4
MaxEntries == 2
MaxLines == 2

(***************************************************************************)
(* The regex engine's character classes and assertions, as the regex crate *)
(* defines them: \s is Unicode White_Space, . is any character but \n,     *)
(* and under (?m) ^ and $ match at the text's ends and around \n.          *)
(***************************************************************************)
IsSpace(c) == c \in {" ", "\t", "\n", "\r"}

\* mutant of LineStart: the pattern without its ^ anchor
LineStartUnanchored(s, i) == TRUE

\* (?m)^ at position i (the position before s[i])
LineStart(s, i) == i = 1 \/ s[i - 1] = "\n"

\* (?m)$ at position i
LineEnd(s, i) == i = Len(s) + 1 \/ s[i] = "\n"

\* \s* from position i: every position it can end at
SpaceRunEnds(s, i) ==
    {j \in i..(Len(s) + 1) : \A k \in i..(j - 1) : IsSpace(s[k])}

\* a literal at position i
LitAt(s, i, lit) ==
    /\ i + Len(lit) - 1 <= Len(s)
    /\ \A k \in 1..Len(lit) : s[i + k - 1] = lit[k]

SlashSlash == <<"/", "/">>
Hash == <<"#">>
TodoToken == <<"T", "O", "D", "O", ":">>

\* mutant of IntroEnds: the pattern without its # alternative
IntroEndsSlashOnly(s, i) ==
    {[alt |-> 1, a |-> a, end |-> a + 2] :
        a \in {x \in SpaceRunEnds(s, i) : LitAt(s, x, SlashSlash)}}

\* (?:\s*//|\s*#) from position i: the alternative taken, where its \s*
\* ended and where the group ended
IntroEnds(s, i) ==
    {[alt |-> 1, a |-> a, end |-> a + 2] :
        a \in {x \in SpaceRunEnds(s, i) : LitAt(s, x, SlashSlash)}}
    \cup
    {[alt |-> 2, a |-> a, end |-> a + 1] :
        a \in {x \in SpaceRunEnds(s, i) : LitAt(s, x, Hash)}}

\* mutant of CaptureEnds: the group written (.*), without its final \S
CaptureEndsUntrimmed(s, p) ==
    {e \in p..(Len(s) + 1) : \A k \in p..(e - 1) : s[k] # "\n"}

\* (.*\S) from position p: every position the group can end at
CaptureEnds(s, p) ==
    {e \in (p + 1)..(Len(s) + 1) :
        /\ \A k \in p..(e - 2) : s[k] # "\n"
        /\ ~IsSpace(s[e - 1])}

\* \s*$ from position e: every position the match can end at
TailEnds(s, e) == {q \in SpaceRunEnds(s, e) : LineEnd(s, q)}

\* \s*TODO:\s* from position i: where the first \s* ended and where the
\* second one ended
MarkerEnds(s, i) ==
    UNION {{[b |-> b, p |-> p] : p \in SpaceRunEnds(s, b + Len(TodoToken))} :
        b \in {x \in SpaceRunEnds(s, i) : LitAt(s, x, TodoToken)}}

\* every way TODO_PATTERN matches s, with the choice made at each choice
\* point in the pattern's order
AllMatches(s) ==
    UNION {UNION {UNION {UNION {
        {<<i, g.alt, g.a, m.b, m.p, e, q>> : q \in TailEnds(s, e)} :
            e \in CaptureEnds(s, m.p)} :
            m \in MarkerEnds(s, g.end)} :
            g \in IntroEnds(s, i)} :
            i \in {x \in 1..(Len(s) + 1) : LineStart(s, x)}}

\* the order in which a leftmost-first engine prefers matches: the earliest
\* start, then the first alternative, then each greedy repetition as long as
\* it can be, in the pattern's order
RECURSIVE PreferredFrom(_, _, _)
PreferredFrom(m1, m2, k) ==
    IF k > Len(m1) THEN FALSE
    ELSE IF m1[k] = m2[k] THEN PreferredFrom(m1, m2, k + 1)
    ELSE IF k <= 2 THEN m1[k] < m2[k]
    ELSE m1[k] > m2[k]

\* Regex::captures with TODO_PATTERN: the preferred match, if any
Captures(s) ==
    LET ms == AllMatches(s) IN
    IF ms = {} THEN None
    ELSE Some(CHOOSE m \in ms :
                \A o \in ms : o = m \/ PreferredFrom(m, o, 1))

\* captures.get(1).as_str()
Group1(s, m) == SubSeq(s, m[5], m[6] - 1)

extract_todo_comment(s) ==
    LET captures == Captures(s) IN
    IF captures # None THEN Some(Group1(s, captures[1]))
    ELSE None

(***************************************************************************)
(* The texts of the extractor's specification: up to MaxPieces pieces.     *)
(***************************************************************************)
Pieces ==
    {<<" ">>, <<"\r">>, <<"\n">>, <<"x">>, <<"/">>, SlashSlash, Hash,
     TodoToken}

RECURSIVE TextsUpTo(_)
TextsUpTo(n) ==
    IF n = 0 THEN {<<>>}
    ELSE LET prev == TextsUpTo(n - 1) IN
         prev \cup {t \o p : t \in prev, p \in Pieces}

\* the classifier's and main's variables while they are not running
ClassifyIdle ==
    /\ entry = [name |-> <<>>, kind |-> "file"]
    /\ supported = FALSE
    /\ cpc = "idle"

MainIdle ==
    /\ argc = 0
    /\ dirBad = FALSE
    /\ pc = "idle"
    /\ yielded = 0
    /\ seen = <<>>
    /\ out = <<>>
    /\ created = FALSE
    /\ stdout = <<>>
    /\ stderr = <<>>
    /\ exit = None
    /\ failure = "none"

ExtractIdle ==
    /\ line = <<>>
    /\ result = None
    /\ epc = "idle"

InitExtract ==
    /\ line \in TextsUpTo(MaxPieces)
    /\ result = None
    /\ epc = "call"
    /\ ClassifyIdle
    /\ MainIdle

\* a caller hands `line` to extract_todo_comment
Extract ==
    /\ epc = "call"
    /\ result' = extract_todo_comment(line)
    /\ epc' = "done"
    /\ UNCHANGED <<line, classifyVars, mainVars>>

NextExtract == Extract

SpecExtract == InitExtract /\ [][NextExtract]_vars

(***************************************************************************)
(* Claims about the extractor.                                             *)
(***************************************************************************)
NoNewline(s) == \A k \in 1..Len(s) : s[k] # "\n"

RECURSIVE TrimStart(_)
TrimStart(s) ==
    IF s # <<>> /\ IsSpace(Head(s)) THEN TrimStart(Tail(s)) ELSE s

RECURSIVE TrimEnd(_)
TrimEnd(s) ==
    IF s # <<>> /\ IsSpace(s[Len(s)])
    THEN TrimEnd(SubSeq(s, 1, Len(s) - 1))
    ELSE s

Trim(s) == TrimEnd(TrimStart(s))

StartsWith(s, lit) == LitAt(s, 1, lit)

Drop(s, n) == SubSeq(s, n + 1, Len(s))

\* the reference pattern ^\s*(//|#)\s*TODO:\s*(\S.*\S|\S)\s*$ on a line
\* without a newline: its capture group, if the line matches
RefCapture(s) ==
    LET a == TrimStart(s)
        afterIntro ==
            IF StartsWith(a, SlashSlash) THEN Some(Drop(a, 2))
            ELSE IF StartsWith(a, Hash) THEN Some(Drop(a, 1))
            ELSE None
    IN  IF afterIntro = None THEN None
        ELSE LET b == TrimStart(afterIntro[1]) IN
             IF ~StartsWith(b, TodoToken) THEN None
             ELSE LET body == Trim(Drop(b, Len(TodoToken))) IN
                  IF body = <<>> THEN None ELSE Some(body)

\* C1: on a line without a newline, extract_todo_comment returns Some(body)
\* exactly when the reference pattern matches, body being the reference
\* capture group, and None on every other line.
C1_MatchesReference ==
    (epc = "done" /\ NoNewline(line)) => result = RefCapture(line)

\* a line with space before the introducer and after the body was matched
C1_Witness ==
    /\ epc = "done"
    /\ NoNewline(line)
    /\ result # None
    /\ Len(line) > 0
    /\ IsSpace(line[1])
    /\ IsSpace(line[Len(line)])

\* an introducer, optional space and TODO: start at position i
MarkerAt(s, i) ==
    \E n \in {Len(SlashSlash), Len(Hash)} :
        /\ LitAt(s, i, IF n = 2 THEN SlashSlash ELSE Hash)
        /\ \E b \in SpaceRunEnds(s, i + n) : LitAt(s, b, TodoToken)

\* something other than space stands before position i on i's physical line
PrecededByCode(s, i) ==
    \E k \in 1..(i - 1) :
        /\ ~IsSpace(s[k])
        /\ \A j \in k..(i - 1) : s[j] # "\n"

HasInlineMarkerOnly(s) ==
    /\ \E i \in 1..Len(s) : MarkerAt(s, i)
    /\ \A i \in 1..Len(s) : MarkerAt(s, i) => PrecededByCode(s, i)

\* C2: when the introducer followed by TODO: stands behind other content of
\* its line (no occurrence of it is the first content of its line),
\* extract_todo_comment returns None.
C2_InlineIsNone ==
    (epc = "done" /\ HasInlineMarkerOnly(line)) => result = None

\* an inline trailing TODO that would match if it stood alone on the line
C2_Witness ==
    /\ epc = "done"
    /\ NoNewline(line)
    /\ HasInlineMarkerOnly(line)
    /\ \E i \in 2..Len(line) :
          /\ MarkerAt(line, i)
          /\ extract_todo_comment(SubSeq(line, i, Len(line))) # None
    /\ result = None

LF == <<"\n">>
CRLF == <<"\r", "\n">>

\* C9: the result does not depend on a trailing line terminator: a line
\* without a newline gives the same result alone, with \n appended and with
\* \r\n appended, and a returned body holds no terminator.
C9_TerminatorIndependent ==
    (epc = "done" /\ NoNewline(line)) =>
        /\ extract_todo_comment(line \o LF) = result
        /\ extract_todo_comment(line \o CRLF) = result
        /\ result # None =>
              /\ result[1] # <<>>
              /\ NoNewline(result[1])
              /\ result[1][Len(result[1])] # "\r"

\* a matching line, so that the terminated lines have a body to agree on
C9_Witness ==
    /\ epc = "done"
    /\ NoNewline(line)
    /\ result # None
    /\ extract_todo_comment(line \o CRLF) = result

\* the end of the physical line that holds position t
RECURSIVE EndOfLine(_, _)
EndOfLine(s, t) ==
    IF t > Len(s) \/ s[t] = "\n" THEN t ELSE EndOfLine(s, t + 1)

\* the introducer, optional space and TODO: end at position t
MarkerEndsAt(s, t) ==
    /\ t > Len(TodoToken)
    /\ LitAt(s, t - Len(TodoToken), TodoToken)
    /\ \E i \in 1..Len(s) :
          \E n \in {Len(SlashSlash), Len(Hash)} :
            /\ LitAt(s, i, IF n = 2 THEN SlashSlash ELSE Hash)
            /\ (t - Len(TodoToken)) \in SpaceRunEnds(s, i + n)

\* C10: a returned body is taken from the physical line of the marker, cut
\* at that line's end; the text of a following line is never returned.
C10_BodyFromMarkerLine ==
    (epc = "done" /\ result # None) =>
        \E t \in 1..(Len(line) + 1) :
            /\ MarkerEndsAt(line, t)
            /\ result[1] = Trim(SubSeq(line, t, EndOfLine(line, t) - 1))

(***************************************************************************)
(* The file classifier.  A directory entry is its file name and what the   *)
(* path is on disk.                                                        *)
(***************************************************************************)
Dot == "."

\* Path::is_file: the metadata of the path, symlinks followed, is a file's
is_file(e) == e.kind \in {"file", "symlink_to_file"}

\* the positions of the dots of a file name
DotsOf(name) == {k \in 1..Len(name) : name[k] = Dot}

LastDot(name) == CHOOSE k \in DotsOf(name) : \A j \in DotsOf(name) : j <= k

\* Path::extension: None when the file name is "..", has no dot, or has its
\* only dot as its first character; otherwise the text after the last dot
extension(name) ==
    IF name = <<Dot, Dot>> THEN None
    ELSE IF DotsOf(name) = {} THEN None
    ELSE IF LastDot(name) = 1 THEN None
    ELSE Some(SubSeq(name, LastDot(name) + 1, Len(name)))

ExtRs == <<"r", "s">>
ExtPy == <<"p", "y">>
ExtJava == <<"j", "a", "v", "a">>
ExtTs == <<"t", "s">>
ExtJs == <<"j", "s">>

\* mutant of from_str: the match without its "ts" arm
from_strWithoutTs(ext) ==
    IF ext = ExtRs THEN Some("Rust")
    ELSE IF ext = ExtPy THEN Some("Python")
    ELSE IF ext = ExtJava THEN Some("Java")
    ELSE IF ext = ExtJs THEN Some("JavaScript")
    ELSE None

\* FileExtension::from_str
from_str(ext) ==
    IF ext = ExtRs THEN Some("Rust")
    ELSE IF ext = ExtPy THEN Some("Python")
    ELSE IF ext = ExtJava THEN Some("Java")
    ELSE IF ext = ExtTs THEN Some("TypeScript")
    ELSE IF ext = ExtJs THEN Some("JavaScript")
    ELSE None

is_supported_file(e) ==
    /\ is_file(e)
    /\ LET ext == extension(e.name) IN
       (IF ext = None THEN None ELSE from_str(ext[1])) # None

NameParts ==
    {<<Dot>>, <<"a">>, ExtRs, <<"R", "S">>, ExtPy, ExtJava, ExtTs, ExtJs,
     <<"t", "x", "t">>}

RECURSIVE NamesUpTo(_)
NamesUpTo(n) ==
    IF n = 0 THEN {<<>>}
    ELSE LET prev == NamesUpTo(n - 1) IN
         prev \cup {t \o p : t \in prev, p \in NameParts}

Kinds == {"file", "symlink_to_file", "dir", "symlink_to_dir", "other"}

InitClassify ==
    /\ entry \in [name : NamesUpTo(MaxNameParts) \ {<<>>}, kind : Kinds]
    /\ supported = FALSE
    /\ cpc = "call"
    /\ ExtractIdle
    /\ MainIdle

\* a caller hands `entry` to is_supported_file
Classify ==
    /\ cpc = "call"
    /\ supported' = is_supported_file(entry)
    /\ cpc' = "done"
    /\ UNCHANGED <<entry, extractVars, mainVars>>

NextClassify == Classify

SpecClassify == InitClassify /\ [][NextClassify]_vars

(***************************************************************************)
(* Claims about the file classifier.                                       *)
(***************************************************************************)
FiveExtensions == {ExtRs, ExtPy, ExtJava, ExtTs, ExtJs}

\* the text after the last dot of a name that has a dot
AfterLastDot(name) == SubSeq(name, LastDot(name) + 1, Len(name))

\* C3 as stated: is_supported_file is true exactly for a regular file whose
\* name's text after the last dot is one of rs, py, java, ts, js, a name
\* that is only ".rs" included.
C3_AsStated ==
    cpc = "done" =>
        (supported <=>
            /\ is_file(entry)
            /\ DotsOf(entry.name) # {}
            /\ AfterLastDot(entry.name) \in FiveExtensions)

\* C3 as amended: is_supported_file is true exactly for a regular file whose
\* name has a dot that is not its first character and whose text after the
\* last dot is, case-sensitively, one of rs, py, java, ts, js; a name whose
\* only dot is its first character (".rs") is not supported.
C3_SupportedIffExtension ==
    cpc = "done" =>
        (supported <=>
            /\ is_file(entry)
            /\ DotsOf(entry.name) # {}
            /\ LastDot(entry.name) > 1
            /\ AfterLastDot(entry.name) \in FiveExtensions)

\* a file with two dots in its name, the last one before "ts", is supported
C3_Witness ==
    /\ cpc = "done"
    /\ supported
    /\ Cardinality(DotsOf(entry.name)) = 2
    /\ AfterLastDot(entry.name) = ExtTs

(***************************************************************************)
(* The driver, main, with process_file inlined at its call.                *)
(***************************************************************************)
Digits == <<"0", "1", "2", "3", "4", "5", "6", "7", "8", "9">>

\* usize::to_string: the decimal digits
RECURSIVE to_string(_)
to_string(n) ==
    IF n < 10 THEN <<Digits[n + 1]>>
    ELSE to_string(n \div 10) \o <<Digits[(n % 10) + 1]>>

UsageMessage == "Usage: todo_finder <directory> <output.csv>"
ErrorMessage == "Error: ..."
output_file == "output.csv"
SavedMessage == <<"Results saved to: ", output_file>>
Header == <<"File", "Line", "Comment">>

\* mutant of BadArgCount: the check written args.len() < 3
BadArgCountBelowOnly(n) == n < 3

\* main's check of args.len()
BadArgCount(n) == n # 3

\* mutant of KeepEntry: the walk without its is_supported_file filter
KeepEveryEntry(e) == TRUE

\* the filter main puts on the walker's entries
KeepEntry(e) == is_supported_file(e)

\* mutant of LineNumberField: the enumerate index written as it is
LineNumberFieldZeroBased(line_number) == to_string(line_number)

\* the Line field of a record
LineNumberField(line_number) == to_string(line_number + 1)

\* mutant of AfterProcessFile: the result of process_file dropped
AfterProcessFileIgnored(ok) == "walk"

\* the ? on process_file's result: the loop goes on, or main returns the Err
AfterProcessFile(ok) == IF ok THEN "walk" ELSE "return_err"

\* the lines BufRead::lines yields in the model: no \n, no trailing \r
SampleLines ==
    {<<"/", "/", " ", "T", "O", "D", "O", ":", " ", "a">>,
     <<"x", " ", "/", "/", "T", "O", "D", "O", ":", "a">>,
     <<" ", "#", "T", "O", "D", "O", ":", "b", " ">>}

\* the entries the walker yields in the model
WalkEntries ==
    {[name |-> <<"a", ".", "r", "s">>, kind |-> "file"],
     [name |-> <<"b", ".", "p", "y">>, kind |-> "file"],
     [name |-> <<"n", ".", "t", "x", "t">>, kind |-> "file"],
     [name |-> <<"d", ".", "r", "s">>, kind |-> "dir"]}

ArgCounts == 1..MaxArgs

Init ==
    /\ argc \in ArgCounts
    /\ dirBad \in BOOLEAN
    /\ pc = "start"
    /\ yielded = 0
    /\ seen = <<>>
    /\ out = <<>>
    /\ created = FALSE
    /\ stdout = <<>>
    /\ stderr = <<>>
    /\ exit = None
    /\ failure = "none"
    /\ ExtractIdle
    /\ ClassifyIdle

\* main.rs 7-15: the argument count
CheckArgs ==
    /\ pc = "start"
    /\ IF BadArgCount(argc)
       THEN /\ stderr' = Append(stderr, UsageMessage)
            /\ exit' = Some(1)
            /\ pc' = "exited"
       ELSE /\ pc' = "create"
            /\ UNCHANGED <<stderr, exit>>
    /\ UNCHANGED <<argc, dirBad, yielded, seen, out, created, stdout, failure,
                   extractVars, classifyVars>>

\* main.rs 17: Writer::from_path creates or truncates the output file
CreateWriter ==
    /\ pc = "create"
    /\ \E ok \in BOOLEAN :
         IF ok
         THEN /\ created' = TRUE
              /\ pc' = "header"
              /\ UNCHANGED failure
         ELSE /\ failure' = "create"
              /\ pc' = "return_err"
              /\ UNCHANGED created
    /\ UNCHANGED <<argc, dirBad, yielded, seen, out, stdout, stderr, exit,
                   extractVars, classifyVars>>

\* main.rs 18: the header record
WriteHeader ==
    /\ pc = "header"
    /\ \E ok \in BOOLEAN :
         IF ok
         THEN /\ out' = Append(out, Header)
              /\ pc' = "walk"
              /\ UNCHANGED failure
         ELSE /\ failure' = "header"
              /\ pc' = "return_err"
              /\ UNCHANGED out
    /\ UNCHANGED <<argc, dirBad, yielded, seen, created, stdout, stderr, exit,
                   extractVars, classifyVars>>

\* main.rs 27-28: the walker yields an Err, which filter_map(|e| e.ok())
\* drops; a bad directory argument gives exactly this as the first item
WalkerError ==
    /\ pc = "walk"
    /\ yielded < MaxEntries
    /\ dirBad => yielded = 0
    /\ yielded' = yielded + 1
    /\ UNCHANGED <<argc, dirBad, pc, seen, out, created, stdout, stderr, exit,
                   failure, extractVars, classifyVars>>

\* main.rs 27-31: the walker yields an entry; the filter keeps it, and the
\* loop body calls process_file on it, or drops it
WalkerEntry ==
    /\ pc = "walk"
    /\ yielded < MaxEntries
    /\ ~dirBad
    /\ \E e \in WalkEntries :
         /\ \A k \in 1..Len(seen) : seen[k].entry # e
         /\ yielded' = yielded + 1
         /\ IF KeepEntry(e)
            THEN /\ seen' = Append(seen, [entry |-> e, lines |-> <<>>,
                                          first |-> Len(out) + 1, last |-> 0,
                                          status |-> "opening"])
                 /\ pc' = "open"
            ELSE /\ seen' = Append(seen, [entry |-> e, lines |-> <<>>,
                                          first |-> Len(out) + 1,
                                          last |-> Len(out),
                                          status |-> "skipped"])
                 /\ pc' = "walk"
    /\ UNCHANGED <<argc, dirBad, out, created, stdout, stderr, exit, failure,
                   extractVars, classifyVars>>

\* main.rs 27: the walker is exhausted
WalkerEnd ==
    /\ pc = "walk"
    /\ dirBad => yielded = 1
    /\ pc' = "flush"
    /\ UNCHANGED <<argc, dirBad, yielded, seen, out, created, stdout, stderr,
                   exit, failure, extractVars, classifyVars>>

\* the file process_file is working on
Current == seen[Len(seen)]

SetCurrent(f) == [seen EXCEPT ![Len(seen)] = f]

\* lib.rs 73: File::open(path)?
OpenFile ==
    /\ pc = "open"
    /\ \E ok \in BOOLEAN :
         IF ok
         THEN /\ seen' = SetCurrent([Current EXCEPT !.status = "reading"])
              /\ pc' = "read"
              /\ UNCHANGED failure
         ELSE /\ seen' = SetCurrent([Current EXCEPT !.status = "failed",
                                                    !.last = Len(out)])
              /\ failure' = "open"
              /\ pc' = AfterProcessFile(FALSE)
    /\ UNCHANGED <<argc, dirBad, yielded, out, created, stdout, stderr, exit,
                   extractVars, classifyVars>>

\* lib.rs 76-85: one turn of the loop over reader.lines().enumerate(): the
\* line is read, handed to the extractor and, on a match, written
ReadLine ==
    /\ pc = "read"
    /\ Len(Current.lines) < MaxLines
    /\ \E l \in SampleLines :
         LET line_number == Len(Current.lines)
             todo_comment == extract_todo_comment(l)
             read == [Current EXCEPT !.lines = Append(@, l)]
         IN  IF todo_comment = None
             THEN /\ seen' = SetCurrent(read)
                  /\ UNCHANGED <<out, pc, failure>>
             ELSE \E ok \in BOOLEAN :
                    IF ok
                    THEN /\ out' = Append(out,
                                      <<Current.entry.name,
                                        LineNumberField(line_number),
                                        todo_comment[1]>>)
                         /\ seen' = SetCurrent(read)
                         /\ UNCHANGED <<pc, failure>>
                    ELSE /\ seen' = SetCurrent([read EXCEPT
                                        !.status = "failed",
                                        !.last = Len(out)])
                         /\ failure' = "write"
                         /\ pc' = AfterProcessFile(FALSE)
                         /\ UNCHANGED out
    /\ UNCHANGED <<argc, dirBad, yielded, created, stdout, stderr, exit,
                   extractVars, classifyVars>>

\* lib.rs 77: the reader yields an Err (an I/O error, or bytes that are not
\* UTF-8) and line? returns it
ReadError ==
    /\ pc = "read"
    /\ seen' = SetCurrent([Current EXCEPT !.status = "failed",
                                          !.last = Len(out)])
    /\ failure' = "read"
    /\ pc' = AfterProcessFile(FALSE)
    /\ UNCHANGED <<argc, dirBad, yielded, out, created, stdout, stderr, exit,
                   extractVars, classifyVars>>

\* lib.rs 76, 87: the reader is exhausted and process_file returns Ok(())
EndOfFile ==
    /\ pc = "read"
    /\ seen' = SetCurrent([Current EXCEPT !.status = "ok",
                                          !.last = Len(out)])
    /\ pc' = AfterProcessFile(TRUE)
    /\ UNCHANGED <<argc, dirBad, yielded, out, created, stdout, stderr, exit,
                   failure, extractVars, classifyVars>>

\* main.rs 34: csv_writer.flush()?
Flush ==
    /\ pc = "flush"
    /\ \E ok \in BOOLEAN :
         IF ok
         THEN /\ pc' = "print"
              /\ UNCHANGED failure
         ELSE /\ failure' = "flush"
              /\ pc' = "return_err"
    /\ UNCHANGED <<argc, dirBad, yielded, seen, out, created, stdout, stderr,
                   exit, extractVars, classifyVars>>

\* main.rs 36: the success message
PrintSaved ==
    /\ pc = "print"
    /\ stdout' = Append(stdout, SavedMessage)
    /\ pc' = "return_ok"
    /\ UNCHANGED <<argc, dirBad, yielded, seen, out, created, stderr, exit,
                   failure, extractVars, classifyVars>>

\* main.rs 38: main returns Ok(()) and the process exits with status 0
ReturnOk ==
    /\ pc = "return_ok"
    /\ exit' = Some(0)
    /\ pc' = "exited"
    /\ UNCHANGED <<argc, dirBad, yielded, seen, out, created, stdout, stderr,
                   failure, extractVars, classifyVars>>

\* main.rs 6: main returns an Err; the runtime reports it on standard error
\* and the process exits with status 1
ReturnErr ==
    /\ pc = "return_err"
    /\ stderr' = Append(stderr, ErrorMessage)
    /\ exit' = Some(1)
    /\ pc' = "exited"
    /\ UNCHANGED <<argc, dirBad, yielded, seen, out, created, stdout, failure,
                   extractVars, classifyVars>>

Next ==
    \/ CheckArgs
    \/ CreateWriter
    \/ WriteHeader
    \/ WalkerError
    \/ WalkerEntry
    \/ WalkerEnd
    \/ OpenFile
    \/ ReadLine
    \/ ReadError
    \/ EndOfFile
    \/ Flush
    \/ PrintSaved
    \/ ReturnOk
    \/ ReturnErr

Spec == Init /\ [][Next]_vars

(***************************************************************************)
(* Claims about process_file and main.                                     *)
(***************************************************************************)
DigitValue(d) == (CHOOSE k \in 1..Len(Digits) : Digits[k] = d) - 1

\* the number a decimal numeral stands for
RECURSIVE ParseDecimal(_)
ParseDecimal(ds) ==
    IF ds = <<>> THEN 0
    ELSE 10 * ParseDecimal(SubSeq(ds, 1, Len(ds) - 1)) + DigitValue(ds[Len(ds)])

\* the records written during the call of process_file on seen[k]
RowsWritten(k) == SubSeq(out, seen[k].first, seen[k].last)

SupportedByRule(e) ==
    /\ e.kind \in {"file", "symlink_to_file"}
    /\ DotsOf(e.name) # {}
    /\ LastDot(e.name) > 1
    /\ AfterLastDot(e.name) \in FiveExtensions

\* the rows lines i.. of a file give
RECURSIVE RowsFrom(_, _, _)
RowsFrom(path, lines, i) ==
    IF i > Len(lines) THEN <<>>
    ELSE LET body == extract_todo_comment(lines[i]) IN
         (IF body = None THEN <<>>
          ELSE <<(<<path, to_string(i), body[1]>>)>>)
         \o RowsFrom(path, lines, i + 1)

\* the rows entries k.. of the walk give, in discovery order
RECURSIVE RowsOfWalk(_, _)
RowsOfWalk(walk, k) ==
    IF k > Len(walk) THEN <<>>
    ELSE (IF SupportedByRule(walk[k].entry)
          THEN RowsFrom(walk[k].entry.name, walk[k].lines, 1)
          ELSE <<>>)
         \o RowsOfWalk(walk, k + 1)

\* C5: in a run that completes successfully the output is the header row,
\* once and first, then the rows of the supported files only, by discovery
\* order and by line order within a file, the rows of a file together.
C5_OutputOrder ==
    (pc = "exited" /\ exit = Some(0)) =>
        out = <<Header>> \o RowsOfWalk(seen, 1)

\* a successful run over two supported files that gave two rows each
C5_Witness ==
    /\ pc = "exited"
    /\ exit = Some(0)
    /\ Len(out) = 5
    /\ out[2][1] = out[3][1]
    /\ out[4][1] = out[5][1]
    /\ out[3][1] # out[4][1]

ProcessFileFailures == {"open", "read", "write"}

\* after a failure of process_file: main is returning the Err or the
\* process has exited, the failing file is the last one touched, and the
\* success message was not printed
StoppedAtFailure ==
    failure \in ProcessFileFailures =>
        /\ pc \in {"return_err", "exited"}
        /\ Current.status = "failed"
        /\ Current.last = Len(out)
        /\ stdout = <<>>
        /\ pc = "exited" => exit = Some(1)

\* a step after a failure of process_file reads, visits, writes and prints
\* nothing, and exits with status 1
NothingAfterFailure ==
    failure \in ProcessFileFailures =>
        /\ seen' = seen
        /\ out' = out
        /\ yielded' = yielded
        /\ stdout' = stdout
        /\ exit' = Some(1)

\* C6: once process_file has failed, the run stops there: nothing more is
\* read, visited or written, the success message is not printed, and the
\* process exits with a non-zero status.
C6_FailureStopsRun == []StoppedAtFailure /\ [][NothingAfterFailure]_vars

\* a read failed midway in the second file, after a row of each file was
\* written, and the process has exited
C6_Witness ==
    /\ failure = "read"
    /\ pc = "exited"
    /\ exit = Some(1)
    /\ Len(seen) = 2
    /\ Len(Current.lines) = 1
    /\ Len(out) = 3

\* C7: with a bad input directory the process exits with a non-zero status
\* and does not print the success message.
C7_BadDirectoryFails ==
    (dirBad /\ pc = "exited" /\ ~BadArgCount(argc)) =>
        /\ exit # Some(0)
        /\ stdout = <<>>

\* C8: with an argument count other than two, the usage message goes to
\* standard error and the process exits with status 1 before anything else:
\* the output file is not created, no header written, no entry visited.
C8_UsageExit ==
    argc # 3 =>
        /\ pc \in {"start", "exited"}
        /\ ~created
        /\ out = <<>>
        /\ yielded = 0
        /\ seen = <<>>
        /\ stdout = <<>>
        /\ pc = "exited" =>
              /\ exit = Some(1)
              /\ stderr = <<UsageMessage>>

\* a run with three positional arguments has exited
C8_Witness ==
    /\ argc = 4
    /\ pc = "exited"
    /\ exit = Some(1)

====
